---- MODULE Spec2Model ----
(***************************************************************************)
(* ValueReader of rust-twobit (src/src/value_reader.rs): the decoder of    *)
(* the typed primitives of a 2bit file (byte, Field, string, block list)   *)
(* over a readable and seekable byte source.                               *)
(*                                                                         *)
(* Every call the decoder makes on its reader (read, seek) is one step of  *)
(* the model: the reader answers a read with a chunk of the size it        *)
(* chooses, or with an I/O error, and the step runs the decoder's code up  *)
(* to the next call on the reader.                                         *)
(*                                                                         *)
(* Numbers.  TLC's integers are 32 bits wide and signed, so a Field (u32)  *)
(* and a stream position or a usize (64 bits) are kept as two limbs,       *)
(* [hi, lo] standing for hi * 2^16 + lo with lo < 2^16.  A Field has       *)
(* hi < 2^16 as well.                                                      *)
(***************************************************************************)
EXTENDS Integers, Sequences, FiniteSets, TLC

VARIABLES
    data,            \* the bytes of the underlying stream (never written)
    pos,             \* the reader's position in the stream (u64, limbs)
    twobit_version,  \* ValueReader.twobit_version
    swap_endian,     \* ValueReader.swap_endian
    pc,              \* the call in progress and its place, or "idle"
    buf,             \* fill_completely: the buffer being filled
    bytes_read,      \* fill_completely: bytes_read
    num_blocks,      \* blocks / skip_blocks: num_blocks (usize, limbs)
    result,          \* blocks: the Vec<Block> under construction
    blk,             \* blocks: index of the second loop (1-based)
    old_pos,         \* stream_len: old_pos
    len,             \* stream_len: len
    ret,             \* what the last finished call returned
    pos0,            \* the position when the call in progress was made
    reads,           \* reader.read calls of the fill in progress (saturating)
    lastio           \* the reader's answer to the latest call made on it

vars == <<data, pos, twobit_version, swap_endian, pc, buf, bytes_read,
          num_blocks, result, blk, old_pos, len, ret, pos0, reads, lastio>>

(***************************************************************************)
(* Bounds of the model.                                                    *)
(***************************************************************************)
\* the longest block list a stream of the model encodes
MaxBlocks == 2
\* the longest string a caller asks for
MaxStrLen == 3
\* the read calls of one fill are counted up to this number
MaxReads == 5
\* how far behind the end of the stream a caller seeks
MaxPast == 2

(***************************************************************************)
(* Limb arithmetic.                                                        *)
(***************************************************************************)
LimbBase == 256 * 256

W(n) == [hi |-> n \div LimbBase, lo |-> n % LimbBase]

WInt(a) == a.hi * LimbBase + a.lo

WAdd(a, b) ==
    LET s == a.lo + b.lo
    IN  [hi |-> a.hi + b.hi + (s \div LimbBase), lo |-> s % LimbBase]

WSub(a, b) ==
    LET l == a.lo - b.lo
    IN  IF l >= 0 THEN [hi |-> a.hi - b.hi, lo |-> l]
        ELSE [hi |-> a.hi - b.hi - 1, lo |-> l + LimbBase]

WMul(a, k) ==
    LET p == a.lo * k
    IN  [hi |-> a.hi * k + (p \div LimbBase), lo |-> p % LimbBase]

WLt(a, b) == a.hi < b.hi \/ (a.hi = b.hi /\ a.lo < b.lo)

Min(a, b) == IF a < b THEN a ELSE b

Reverse(s) == [i \in 1..Len(s) |-> s[Len(s) + 1 - i]]

Zeros(n) == [i \in 1..n |-> 0]

(***************************************************************************)
(* Field: u32.                                                             *)
(***************************************************************************)
FIELD_SIZE == 4

Zero == [hi |-> 0, lo |-> 0]

\* the magic constant 0x1A412743 and its byte-reversed value 0x4327411A
SIGNATURE == [hi |-> 26 * 256 + 65, lo |-> 39 * 256 + 67]

REV_SIGNATURE == [hi |-> 67 * 256 + 39, lo |-> 65 * 256 + 26]

\* result <<= 8 on a u32: the bits shifted out of the top are dropped
Shl8(f) ==
    [hi |-> (f.hi * 256 + (f.lo \div 256)) % LimbBase,
     lo |-> (f.lo * 256) % LimbBase]

\* result += Field::from(byte) on a u32, wrapping at 2^32
AddByte(f, byte) ==
    LET s == f.lo + byte
    IN  [hi |-> (f.hi + (s \div LimbBase)) % LimbBase, lo |-> s % LimbBase]

\* the loop body of slice_to_field over the bytes in the order given
RECURSIVE Accumulate(_, _)
Accumulate(acc, bytes) ==
    IF bytes = <<>> THEN acc
    ELSE Accumulate(AddByte(Shl8(acc), Head(bytes)), Tail(bytes))

\* a mutant: the swap_endian flag is ignored
slice_to_field_noswap(slice, swap) == Accumulate(Zero, slice)

slice_to_field(slice, swap) ==
    IF swap THEN Accumulate(Zero, Reverse(slice))
    ELSE Accumulate(Zero, slice)

\* whether a step of the loop loses a bit: a shift that drops a set bit or
\* an addition that carries out of the 32 bits
RECURSIVE Overflows(_, _)
Overflows(acc, bytes) ==
    IF bytes = <<>> THEN FALSE
    ELSE \/ acc.hi \div 256 # 0
         \/ Shl8(acc).hi + ((Shl8(acc).lo + Head(bytes)) \div LimbBase) >= LimbBase
         \/ Overflows(AddByte(Shl8(acc), Head(bytes)), Tail(bytes))

(***************************************************************************)
(* String::from_utf8: well-formed UTF-8 (Unicode, table 3-7).              *)
(***************************************************************************)
IsCont(b) == b >= 128 /\ b <= 191

RECURSIVE Utf8Valid(_)
Utf8Valid(s) ==
    IF s = <<>> THEN TRUE
    ELSE LET b == s[1]
             n == Len(s)
         IN  IF b < 128 THEN Utf8Valid(Tail(s))
             ELSE IF b >= 194 /\ b <= 223
             THEN n >= 2 /\ IsCont(s[2]) /\ Utf8Valid(SubSeq(s, 3, n))
             ELSE IF b >= 224 /\ b <= 239
             THEN /\ n >= 3
                  /\ IsCont(s[2])
                  /\ (b = 224 => s[2] >= 160)
                  /\ (b = 237 => s[2] <= 159)
                  /\ IsCont(s[3])
                  /\ Utf8Valid(SubSeq(s, 4, n))
             ELSE IF b >= 240 /\ b <= 244
             THEN /\ n >= 4
                  /\ IsCont(s[2])
                  /\ (b = 240 => s[2] >= 144)
                  /\ (b = 244 => s[2] <= 143)
                  /\ IsCont(s[3])
                  /\ IsCont(s[4])
                  /\ Utf8Valid(SubSeq(s, 5, n))
             ELSE FALSE

(***************************************************************************)
(* The streams the decoder is opened on.                                   *)
(***************************************************************************)
\* a small number as the four bytes of a Field, written in the file's order
Enc(n, swap) ==
    LET be == <<0, 0, n \div 256, n % 256>>
    IN  IF swap THEN Reverse(be) ELSE be

FwdSig == <<26, 65, 39, 67>>

RevSig == <<67, 39, 65, 26>>

Sig(swap) == IF swap THEN RevSig ELSE FwdSig

Header(swap) == Sig(swap) \o Enc(0, swap)

\* the i-th block of the block lists of the model: 10/5, 50/8, 90/11, ...
StartOf(i) == 10 + 40 * (i - 1)

LengthOf(i) == 5 + 3 * (i - 1)

\* an array of Fields
RECURSIVE EncAll(_, _)
EncAll(vals, swap) ==
    IF vals = <<>> THEN <<>>
    ELSE Enc(Head(vals), swap) \o EncAll(Tail(vals), swap)

\* count, then count starts, then count lengths
BlockList(n, swap) ==
    Enc(n, swap)
        \o EncAll([i \in 1..n |-> StartOf(i)], swap)
        \o EncAll([i \in 1..n |-> LengthOf(i)], swap)

Payloads(swap) ==
    {BlockList(n, swap) : n \in 0..MaxBlocks}
        \cup {<<>>,
              \* a block list cut short inside its arrays
              Enc(2, swap) \o Enc(10, swap) \o Enc(50, swap) \o <<0, 0>>,
              \* one block whose Fields use the top bit
              Enc(1, swap) \o <<128, 0, 0, 1>> \o <<255, 255, 255, 254>>,
              \* text: "h", e with an acute accent, then a byte no text holds
              <<104, 195, 169, 255>>,
              \* the largest count, and nothing behind it
              <<255, 255, 255, 255>>}

Streams ==
    \* a good header and a payload
    UNION {{Header(swap) \o p : p \in Payloads(swap)} : swap \in BOOLEAN}
        \* a good signature and a version that is not 0
        \cup {Sig(swap) \o v \o BlockList(1, swap) :
                  swap \in BOOLEAN,
                  v \in {<<0, 0, 0, 1>>, <<1, 0, 0, 0>>, <<0, 128, 0, 0>>}}
        \* no signature
        \cup {s \o Enc(0, FALSE) \o BlockList(1, FALSE) :
                  s \in {<<26, 65, 39, 68>>, <<65, 26, 67, 39>>, <<0, 0, 0, 0>>}}
        \* streams that end inside the header
        \cup {<<>>, <<26, 65>>, FwdSig, RevSig \o <<0, 0>>}
        \* no signature and nothing behind it
        \cup {<<67, 65, 39, 26>>}

(***************************************************************************)
(* What a call returns.                                                    *)
(***************************************************************************)
None == [tag |-> "None"]

Ok(op, val) == [tag |-> "Ok", op |-> op, val |-> val]

Err(kind, cause) == [tag |-> "Err", kind |-> kind, cause |-> cause]

\* From<std::io::Error> for Error, applied by ? and e.into(): the I/O failure
\* that holds the reader's error
IoError(e) == Err("Io", e)

\* the kinds of std::io::Error the reader of the model answers with
IoErrorKinds == {"Interrupted", "Other"}

NoIo == [call |-> "none", ok |-> TRUE, n |-> 0, err |-> "none"]

(***************************************************************************)
(* The reader: Read + Seek over data, at pos.                              *)
(***************************************************************************)
\* bytes between the position and the end of the stream
Available ==
    IF WLt(pos, W(Len(data))) THEN Len(data) - WInt(pos) ELSE 0

\* Read::read on a buffer of `want` bytes: at least one byte and at most
\* `want` while bytes are left, none at the end of the stream, or an error
ReadOutcomes(want) ==
    {[ok |-> TRUE, n |-> m, err |-> "none"] :
        m \in IF Available = 0 \/ want = 0 THEN {0}
              ELSE 1..Min(want, Available)}
        \cup {[ok |-> FALSE, n |-> 0, err |-> e] : e \in IoErrorKinds}

SeekFrom(whence, neg, off) == [whence |-> whence, neg |-> neg, off |-> off]

\* Seek::seek: the new position, or an error for a position before 0
SeekResult(from) ==
    LET base == CASE from.whence = "Start" -> W(0)
                  [] from.whence = "End" -> W(Len(data))
                  [] OTHER -> pos
    IN  IF from.neg
        THEN IF WLt(base, from.off)
             THEN [ok |-> FALSE, pos |-> pos, err |-> "InvalidInput"]
             ELSE [ok |-> TRUE, pos |-> WSub(base, from.off), err |-> "none"]
        ELSE [ok |-> TRUE, pos |-> WAdd(base, from.off), err |-> "none"]

SeekOutcomes(from) ==
    {SeekResult(from)}
        \cup {[ok |-> FALSE, pos |-> pos, err |-> e] : e \in IoErrorKinds}

SeekIo(out) == [call |-> "seek", ok |-> out.ok, n |-> 0, err |-> out.err]

(***************************************************************************)
(* fill_completely.                                                        *)
(***************************************************************************)
\* the places of a call where fill_completely is reading
FillPcs ==
    {"new_signature", "new_version", "byte", "field", "string",
     "blocks_num", "blocks_start", "blocks_length", "skip_num"}

\* a mutant: every read is handed the whole buffer
ReadSlice_whole(b, n) == [off |-> 0, want |-> Len(b)]

\* &mut buf[bytes_read..]: where the reader writes and how much it may write
ReadSlice(b, n) == [off |-> n, want |-> Len(b) - n]

WriteAt(b, off, chunk) ==
    [i \in 1..Len(b) |->
        IF i > off /\ i <= off + Len(chunk) THEN chunk[i - off] ELSE b[i]]

\* a mutant: a read of no bytes ends the fill with an error
FillStep_guarded(n_read, n_bytes, out) ==
    IF ~out.ok \/ out.n = 0 THEN "err"
    ELSE IF n_read + out.n < n_bytes THEN "again"
    ELSE IF n_read + out.n = n_bytes THEN "done"
    ELSE "panic"

\* a mutant: an interrupted read is tried again
FillStep_retry(n_read, n_bytes, out) ==
    IF ~out.ok /\ out.err # "Interrupted" THEN "err"
    ELSE IF n_read + out.n < n_bytes THEN "again"
    ELSE IF n_read + out.n = n_bytes THEN "done"
    ELSE "panic"

\* one round of the loop after the reader answered `out`: the ? of the
\* read, the loop's condition, and the assert_eq! behind the loop
FillStep(n_read, n_bytes, out) ==
    IF ~out.ok THEN "err"
    ELSE IF n_read + out.n < n_bytes THEN "again"
    ELSE IF n_read + out.n = n_bytes THEN "done"
    ELSE "panic"

(***************************************************************************)
(* The code behind a finished fill, up to the next call on the reader.     *)
(* It is a record: the decoder's fields and the call's locals as they      *)
(* become, and what comes next: "fill" (a new fill of `size` bytes),       *)
(* "again" (the same fill goes on) or "end" (no fill in progress).         *)
(***************************************************************************)
Upd ==
    [pc |-> pc, ret |-> None, next |-> "end", size |-> 0,
     swap_endian |-> swap_endian, twobit_version |-> twobit_version,
     num_blocks |-> num_blocks, result |-> result, blk |-> blk]

\* the call returns r: its locals are dropped
Return(r) ==
    [Upd EXCEPT !.pc = "idle", !.ret = r,
                !.num_blocks = Zero, !.result = <<>>, !.blk = 0]

\* the call returns the error e through a ?; an error of new leaves no decoder
Fail(e) ==
    [Return(e) EXCEPT
        !.pc = IF pc \in {"new_signature", "new_version"}
               THEN "failed" ELSE "idle"]

\* self.field() is called next
ThenField(u, p) == [u EXCEPT !.pc = p, !.next = "fill", !.size = FIELD_SIZE]

\* a mutant: the reversed signature is taken without setting the flag
NewSignature_noflag(signature) ==
    IF signature # SIGNATURE /\ signature # REV_SIGNATURE
    THEN Fail(Err("FileFormat", "File does not start with 2bit signature"))
    ELSE ThenField(Upd, "new_version")

\* a mutant: whatever is not the forward signature is taken as the reversed
NewSignature_lax(signature) ==
    IF signature # SIGNATURE
    THEN ThenField([Upd EXCEPT !.swap_endian = TRUE], "new_version")
    ELSE ThenField(Upd, "new_version")

\* new, behind the first field()
NewSignature(signature) ==
    IF signature # SIGNATURE
    THEN IF signature = REV_SIGNATURE
         THEN ThenField([Upd EXCEPT !.swap_endian = TRUE], "new_version")
         ELSE Fail(Err("FileFormat", "File does not start with 2bit signature"))
    ELSE ThenField(Upd, "new_version")

\* a mutant: versions up to 1 are taken
NewVersion_lax(version) ==
    IF version.hi = 0 /\ version.lo <= 1
    THEN [Return(Ok("new", 0)) EXCEPT !.twobit_version = version]
    ELSE Fail(Err("UnsupportedVersion", "Versions larger than 0 are not supported"))

\* new, behind the second field()
NewVersion(version) ==
    IF version = Zero
    THEN [Return(Ok("new", 0)) EXCEPT !.twobit_version = version]
    ELSE Fail(Err("UnsupportedVersion", "Versions larger than 0 are not supported"))

\* string, behind fill_completely: String::from_utf8(buf)?
FromUtf8(b) ==
    IF Utf8Valid(b) THEN Return(Ok("string", b))
    ELSE Fail(Err("Utf8", "invalid utf-8 sequence"))

\* result.push(Block { start: field, length: 0 })
PushStart(vec, field) == Append(vec, [start |-> field, length |-> Zero])

\* a mutant: the second loop assigns start instead of length
SetLength_start(vec, i, field) == [vec EXCEPT ![i].start = field]

\* block.length = field, for the i-th block of the vector
SetLength(vec, i, field) == [vec EXCEPT ![i].length = field]

\* blocks, behind the field() of the count: the first loop runs while
\* 0 < num_blocks, and the second loop is over the vector, empty here
\* (the allocation of Vec::with_capacity is taken to succeed)
BlocksNum(field) ==
    LET u == [Upd EXCEPT !.num_blocks = field, !.result = <<>>]
    IN  IF WLt(W(0), field) THEN ThenField(u, "blocks_start")
        ELSE Return(Ok("blocks", <<>>))

\* blocks, behind a field() of the first loop
BlocksStart(field) ==
    LET r == PushStart(result, field)
        u == [Upd EXCEPT !.result = r]
    IN  IF WLt(W(Len(r)), num_blocks) THEN ThenField(u, "blocks_start")
        ELSE ThenField([u EXCEPT !.blk = 1], "blocks_length")

\* blocks, behind a field() of the second loop
BlocksLength(field) ==
    LET r == SetLength(result, blk, field)
    IN  IF blk < Len(r)
        THEN ThenField([Upd EXCEPT !.result = r, !.blk = blk + 1], "blocks_length")
        ELSE Return(Ok("blocks", r))

\* a mutant: the product is taken in the 32 bits of a Field
SkipAmount_u32(n) ==
    LET w == WMul(n, 2 * FIELD_SIZE) IN [hi |-> w.hi % LimbBase, lo |-> w.lo]

\* num_blocks * 2 * size_of::<Field>(), in usize
SkipAmount(n) == WMul(n, 2 * FIELD_SIZE)

\* skip_blocks, behind the field() of the count: the seek comes next
SkipNum(field) == [Upd EXCEPT !.pc = "skip_seek", !.num_blocks = field]

AfterFill(b) ==
    LET field == slice_to_field(b, swap_endian)
    IN  CASE pc = "new_signature" -> NewSignature(field)
          [] pc = "new_version" -> NewVersion(field)
          [] pc = "byte" -> Return(Ok("byte", b[1]))
          [] pc = "field" -> Return(Ok("field", field))
          [] pc = "string" -> FromUtf8(b)
          [] pc = "blocks_num" -> BlocksNum(field)
          [] pc = "blocks_start" -> BlocksStart(field)
          [] pc = "blocks_length" -> BlocksLength(field)
          [] OTHER -> SkipNum(field)

\* the decoder's fields, the locals and the buffer after a step
Apply(u, b, n) ==
    /\ pc' = u.pc
    /\ ret' = u.ret
    /\ swap_endian' = u.swap_endian
    /\ twobit_version' = u.twobit_version
    /\ num_blocks' = u.num_blocks
    /\ result' = u.result
    /\ blk' = u.blk
    /\ buf' = CASE u.next = "fill" -> Zeros(u.size)
                [] u.next = "again" -> b
                [] OTHER -> <<>>
    /\ bytes_read' = IF u.next = "again" THEN n ELSE 0

(***************************************************************************)
(* The state after construction begins: new has made its ValueReader and   *)
(* calls field() for the signature, on a stream at offset 0.               *)
(***************************************************************************)
Init ==
    /\ data \in Streams
    /\ pos = W(0)
    /\ twobit_version = Zero
    /\ swap_endian = FALSE
    /\ pc = "new_signature"
    /\ buf = Zeros(FIELD_SIZE)
    /\ bytes_read = 0
    /\ num_blocks = Zero
    /\ result = <<>>
    /\ blk = 0
    /\ old_pos = W(0)
    /\ len = W(0)
    /\ ret = None
    /\ pos0 = W(0)
    /\ reads = 0
    /\ lastio = NoIo

(***************************************************************************)
(* One reader.read of fill_completely, and the code behind it.             *)
(***************************************************************************)
Read ==
    /\ pc \in FillPcs
    /\ \E out \in ReadOutcomes(ReadSlice(buf, bytes_read).want) :
         LET slice == ReadSlice(buf, bytes_read)
             chunk == IF out.n = 0 THEN <<>>
                      ELSE SubSeq(data, WInt(pos) + 1, WInt(pos) + out.n)
             b == WriteAt(buf, slice.off, chunk)
             step == FillStep(bytes_read, Len(buf), out)
             u == CASE step = "done" -> AfterFill(b)
                    [] step = "again" -> [Upd EXCEPT !.next = "again"]
                    [] step = "panic" -> [Upd EXCEPT !.pc = "panicked"]
                    [] OTHER -> Fail(IoError(out.err))
         IN  /\ pos' = WAdd(pos, W(out.n))
             /\ lastio' = [call |-> "read", ok |-> out.ok, n |-> out.n,
                           err |-> out.err]
             /\ reads' = IF u.next = "fill" THEN 0 ELSE Min(reads + 1, MaxReads)
             /\ Apply(u, b, bytes_read + out.n)
    /\ UNCHANGED <<data, old_pos, len, pos0>>

(***************************************************************************)
(* The calls a caller makes on a constructed decoder.                      *)
(***************************************************************************)
\* a call that begins with a fill of n bytes
Begin(p, n) ==
    /\ pc = "idle"
    /\ pc' = p
    /\ buf' = Zeros(n)
    /\ bytes_read' = 0
    /\ reads' = 0
    /\ ret' = None
    /\ pos0' = pos
    /\ lastio' = NoIo
    /\ UNCHANGED <<data, pos, twobit_version, swap_endian, num_blocks, result,
                   blk, old_pos, len>>

CallByte == Begin("byte", 1)

CallField == Begin("field", FIELD_SIZE)

\* string(length); with length 0 the loop of fill_completely is not entered
CallString ==
    \E length \in 0..MaxStrLen :
        IF length > 0 THEN Begin("string", length)
        ELSE /\ pc = "idle"
             /\ ret' = FromUtf8(<<>>).ret
             /\ pos0' = pos
             /\ lastio' = NoIo
             /\ reads' = 0
             /\ UNCHANGED <<data, pos, twobit_version, swap_endian, pc, buf,
                            bytes_read, num_blocks, result, blk, old_pos, len>>

CallBlocks == Begin("blocks_num", FIELD_SIZE)

CallSkipBlocks == Begin("skip_num", FIELD_SIZE)

\* skip_blocks: self.reader.seek(SeekFrom::Current(skip as i64))?
SkipSeek ==
    /\ pc = "skip_seek"
    /\ \E out \in SeekOutcomes(SeekFrom("Current", FALSE, SkipAmount(num_blocks))) :
         /\ pos' = out.pos
         /\ lastio' = SeekIo(out)
         /\ ret' = IF out.ok THEN Ok("skip_blocks", 0) ELSE IoError(out.err)
    /\ pc' = "idle"
    /\ num_blocks' = Zero
    /\ UNCHANGED <<data, twobit_version, swap_endian, buf, bytes_read, result,
                   blk, old_pos, len, pos0, reads>>

\* a call that is one seek on the reader: it returns the new position
\* (unit for seek_start) or the reader's error
OneSeek(op, from) ==
    /\ pc = "idle"
    /\ \E out \in SeekOutcomes(from) :
         /\ pos' = out.pos
         /\ lastio' = SeekIo(out)
         /\ ret' = IF ~out.ok THEN IoError(out.err)
                   ELSE IF op = "seek_start" THEN Ok(op, 0)
                   ELSE Ok(op, out.pos)
    /\ pos0' = pos
    /\ reads' = 0
    /\ UNCHANGED <<data, twobit_version, swap_endian, pc, buf, bytes_read,
                   num_blocks, result, blk, old_pos, len>>

\* the positions a caller of the model seeks to
SeekInputs ==
    {SeekFrom("Start", FALSE, W(k)) : k \in 0..(Len(data) + MaxPast)}
        \cup {SeekFrom("End", TRUE, W(k)) : k \in {1, Len(data) + 1}}
        \cup {SeekFrom("End", FALSE, W(k)) : k \in {0, 1}}
        \cup {SeekFrom("Current", neg, W(1)) : neg \in BOOLEAN}

Seek ==
    \E from \in SeekInputs :
        /\ from.whence = "Current" => ~WLt(W(Len(data) + MaxPast), pos)
        /\ OneSeek("seek", from)

SeekStart == OneSeek("seek_start", SeekFrom("Start", FALSE, W(2 * FIELD_SIZE)))

Tell == OneSeek("tell", SeekFrom("Current", FALSE, W(0)))

\* a mutant: the position is restored only from before the end
NeedsRestore_before(old, end) == WLt(old, end)

\* stream_len: if old_pos != len
NeedsRestore(old, end) == old # end

\* stream_len: let old_pos = self.reader.stream_position()?
StreamLen ==
    /\ pc = "idle"
    /\ \E out \in SeekOutcomes(SeekFrom("Current", FALSE, W(0))) :
         /\ pos' = out.pos
         /\ lastio' = SeekIo(out)
         /\ IF out.ok
            THEN pc' = "stream_len_end" /\ old_pos' = out.pos /\ ret' = None
            ELSE pc' = "idle" /\ old_pos' = W(0) /\ ret' = IoError(out.err)
    /\ pos0' = pos
    /\ reads' = 0
    /\ UNCHANGED <<data, twobit_version, swap_endian, buf, bytes_read,
                   num_blocks, result, blk, len>>

\* stream_len: let len = self.reader.seek(SeekFrom::End(0))?, and the test
StreamLenEnd ==
    /\ pc = "stream_len_end"
    /\ \E out \in SeekOutcomes(SeekFrom("End", FALSE, W(0))) :
         /\ pos' = out.pos
         /\ lastio' = SeekIo(out)
         /\ IF ~out.ok
            THEN pc' = "idle" /\ old_pos' = W(0) /\ len' = W(0)
                 /\ ret' = IoError(out.err)
            ELSE IF NeedsRestore(old_pos, out.pos)
            THEN pc' = "stream_len_restore" /\ len' = out.pos
                 /\ UNCHANGED <<old_pos, ret>>
            ELSE pc' = "idle" /\ old_pos' = W(0) /\ len' = W(0)
                 /\ ret' = Ok("stream_len", out.pos)
    /\ UNCHANGED <<data, twobit_version, swap_endian, buf, bytes_read,
                   num_blocks, result, blk, pos0, reads>>

\* stream_len: self.reader.seek(SeekFrom::Start(old_pos))?, and Ok(len)
StreamLenRestore ==
    /\ pc = "stream_len_restore"
    /\ \E out \in SeekOutcomes(SeekFrom("Start", FALSE, old_pos)) :
         /\ pos' = out.pos
         /\ lastio' = SeekIo(out)
         /\ ret' = IF out.ok THEN Ok("stream_len", len) ELSE IoError(out.err)
    /\ pc' = "idle"
    /\ old_pos' = W(0)
    /\ len' = W(0)
    /\ UNCHANGED <<data, twobit_version, swap_endian, buf, bytes_read,
                   num_blocks, result, blk, pos0, reads>>

Next ==
    \/ Read
    \/ CallByte
    \/ CallField
    \/ CallString
    \/ CallBlocks
    \/ CallSkipBlocks
    \/ SkipSeek
    \/ Seek
    \/ SeekStart
    \/ Tell
    \/ StreamLen
    \/ StreamLenEnd
    \/ StreamLenRestore

Spec == Init /\ [][Next]_vars

(***************************************************************************)
(* field() on every four bytes of an alphabet: the decoder has been        *)
(* constructed on a header of either byte order, stands at offset 8 in     *)
(* front of the four bytes, and field() has been called.                   *)
(***************************************************************************)
DecodeBytes == {0, 26, 39, 65, 67, 128, 255}

InitDecode ==
    /\ \E swap \in BOOLEAN, s \in [1..FIELD_SIZE -> DecodeBytes] :
         /\ data = Header(swap) \o s
         /\ swap_endian = swap
    /\ pos = W(2 * FIELD_SIZE)
    /\ twobit_version = Zero
    /\ pc = "field"
    /\ buf = Zeros(FIELD_SIZE)
    /\ bytes_read = 0
    /\ num_blocks = Zero
    /\ result = <<>>
    /\ blk = 0
    /\ old_pos = W(0)
    /\ len = W(0)
    /\ ret = None
    /\ pos0 = W(2 * FIELD_SIZE)
    /\ reads = 0
    /\ lastio = NoIo

NextDecode == Read

SpecDecode == InitDecode /\ [][NextDecode]_vars

(***************************************************************************)
(* Properties.                                                             *)
(***************************************************************************)
\* the number s[1] * 2^24 + s[2] * 2^16 + s[3] * 2^8 + s[4], in limbs
BigEndian(s) == [hi |-> s[1] * 256 + s[2], lo |-> s[3] * 256 + s[4]]

\* the Field the format stores in the four bytes s of a file of byte order swap
RefField(s, swap) == IF swap THEN BigEndian(Reverse(s)) ELSE BigEndian(s)

\* the Field stored at the 0-based offset off of the stream
FieldAt(off, swap) == RefField(SubSeq(data, off + 1, off + FIELD_SIZE), swap)

IsOk(op) == ret.tag = "Ok" /\ ret.op = op

IsErr(kind) == ret.tag = "Err" /\ ret.kind = kind

\* the reader's latest answer is an error, and the call's error is that one
IoFailed == ~lastio.ok /\ ret.tag = "Err" /\ ret.kind = "Io" /\ ret.cause = lastio.err

InNew == pc \in {"new_signature", "new_version"}

Constructed == ~InNew /\ pc # "failed"

First4 == SubSeq(data, 1, FIELD_SIZE)

GoodSignature == Len(data) >= FIELD_SIZE /\ First4 \in {FwdSig, RevSig}

BadSignature ==
    /\ Len(data) >= FIELD_SIZE
    /\ BigEndian(First4) \notin {SIGNATURE, REV_SIGNATURE}

\* C1: a stream that begins with the forward signature and version 0 opens
\* with swap_endian = FALSE, one that begins with the reversed signature and
\* version 0 opens with swap_endian = TRUE (new fails on them only with the
\* reader's I/O error); the position right after new is 8; and in every
\* later state, whatever calls were made, swap_endian still has that value.
C1_SwapEndianFromSignature ==
    /\ Constructed =>
         /\ GoodSignature
         /\ swap_endian = (First4 = RevSig)
         /\ twobit_version = Zero
    /\ pc = "new_version" => swap_endian = (First4 = RevSig)
    /\ IsOk("new") => pos = W(2 * FIELD_SIZE)
    /\ (Len(data) >= 2 * FIELD_SIZE
            /\ SubSeq(data, 1, 2 * FIELD_SIZE) \in {Header(FALSE), Header(TRUE)}
            /\ pc = "failed") => IoFailed

\* C1's case: a decoder opened on the reversed signature has returned a
\* block list, with swap_endian still TRUE
C1_Witness ==
    /\ IsOk("blocks")
    /\ First4 = RevSig
    /\ swap_endian
    /\ Len(ret.val) = 1

\* C2: on a stream whose first four bytes are neither signature new fails
\* with FileFormat, at position 4: the version is never read (the only other
\* outcome is the I/O error of the reader on the read of the signature).
C2_BadSignatureFileFormat ==
    BadSignature =>
        /\ pc \in {"new_signature", "failed"}
        /\ ~WLt(W(FIELD_SIZE), pos)
        /\ pc = "failed" =>
             \/ IsErr("FileFormat") /\ pos = W(FIELD_SIZE) /\ lastio.ok
             \/ IoFailed

\* C2's case: new has failed with FileFormat
C2_Witness == BadSignature /\ pc = "failed" /\ IsErr("FileFormat")

\* C3: with a good signature and a version Field that is not 0 in the byte
\* order of the signature, new fails with UnsupportedVersion (or the
\* reader's I/O error); a decoder exists only when that Field is 0.
C3_UnsupportedVersion ==
    /\ (GoodSignature /\ Len(data) >= 2 * FIELD_SIZE
            /\ FieldAt(FIELD_SIZE, First4 = RevSig) # Zero) =>
         /\ InNew \/ pc = "failed"
         /\ pc = "failed" =>
              \/ IsErr("UnsupportedVersion") /\ pos = W(2 * FIELD_SIZE) /\ lastio.ok
              \/ IoFailed
    /\ Constructed => FieldAt(FIELD_SIZE, First4 = RevSig) = Zero

\* C3's case: version 1 behind the reversed signature (01 00 00 00) is refused
C3_Witness ==
    /\ pc = "failed"
    /\ IsErr("UnsupportedVersion")
    /\ First4 = RevSig
    /\ SubSeq(data, FIELD_SIZE + 1, 2 * FIELD_SIZE) = <<1, 0, 0, 0>>

\* C4: for the four bytes s in front of the decoder, slice_to_field(s, TRUE)
\* is slice_to_field(reverse(s), FALSE), slice_to_field(s, FALSE) is the
\* big-endian number of s, no step of either loop overflows the 32 bits, and
\* field() returns the Field of s in the decoder's byte order; 1A 41 27 43
\* unswapped and 43 27 41 1A swapped both give 0x1A412743.
C4_SliceToField ==
    LET s == SubSeq(data, 2 * FIELD_SIZE + 1, 3 * FIELD_SIZE)
    IN  /\ slice_to_field(s, TRUE) = slice_to_field(Reverse(s), FALSE)
        /\ slice_to_field(s, FALSE) = BigEndian(s)
        /\ ~Overflows(Zero, s)
        /\ ~Overflows(Zero, Reverse(s))
        /\ IsOk("field") => ret.val = RefField(s, swap_endian)
        /\ s = FwdSig => slice_to_field(s, FALSE) = SIGNATURE
        /\ s = RevSig => slice_to_field(s, TRUE) = SIGNATURE

\* C4's case: field() has decoded 43 27 41 1A with swap_endian to 0x1A412743
C4_Witness ==
    /\ IsOk("field")
    /\ swap_endian
    /\ SubSeq(data, 2 * FIELD_SIZE + 1, 3 * FIELD_SIZE) = RevSig
    /\ ret.val = SIGNATURE

\* the count stored where the call in progress (or just finished) began
CountAt0 == FieldAt(WInt(pos0), swap_endian)

\* the position behind the block list that begins at pos0
EndOfBlockList == WAdd(pos0, WAdd(W(FIELD_SIZE), WMul(CountAt0, 2 * FIELD_SIZE)))

\* C5: blocks() returns as many Blocks as the count N says, the i-th with
\* start = the i-th Field behind the count and length = the (N+i)-th, and
\* leaves the position 4 + 8 * N behind where it began; with N = 0 it returns
\* the empty list at the read of the count (no loop is entered).
C5_BlocksTwoArrays ==
    /\ IsOk("blocks") =>
         LET p == WInt(pos0)
             n == Len(ret.val)
         IN  /\ W(n) = CountAt0
             /\ \A i \in 1..n :
                  /\ ret.val[i].start = FieldAt(p + FIELD_SIZE * i, swap_endian)
                  /\ ret.val[i].length = FieldAt(p + FIELD_SIZE * (n + i), swap_endian)
             /\ pos = W(p + FIELD_SIZE + 2 * FIELD_SIZE * n)
             /\ lastio.call = "read"
    /\ pc = "blocks_start" => WLt(W(Len(result)), num_blocks)
    /\ pc = "blocks_length" =>
         /\ num_blocks # Zero
         /\ W(Len(result)) = num_blocks
         /\ blk \in 1..Len(result)

\* C5's case: count 2, starts 10 and 50, lengths 5 and 8 have been decoded
C5_Witness ==
    /\ IsOk("blocks")
    /\ ret.val = <<[start |-> W(10), length |-> W(5)],
                   [start |-> W(50), length |-> W(8)]>>

\* C6: skip_blocks() returns at the position 4 + 8 * count behind where it
\* began, for every count and whatever lies behind it; it reads the count
\* only (the one call behind the count is the seek); blocks() ends at the
\* same position.
C6_SkipBlocksPosition ==
    /\ IsOk("skip_blocks") => pos = EndOfBlockList /\ lastio.call = "seek"
    /\ pc = "skip_seek" =>
         /\ pos = WAdd(pos0, W(FIELD_SIZE))
         /\ num_blocks = CountAt0
    /\ IsOk("blocks") => pos = EndOfBlockList

\* C6's case: the count FF FF FF FF, with no arrays behind it, was skipped
C6_Witness ==
    /\ IsOk("skip_blocks")
    /\ CountAt0 = [hi |-> LimbBase - 1, lo |-> LimbBase - 1]

\* C7: stream_len() returns the length of the stream and leaves the position
\* where it was, and tell() returns the position without moving it.
C7_StreamLenKeepsPosition ==
    /\ IsOk("stream_len") => ret.val = W(Len(data)) /\ pos = pos0
    /\ IsOk("tell") => ret.val = pos /\ pos = pos0

\* C7's case: stream_len() has returned with the position behind the end
C7_Witness == IsOk("stream_len") /\ WLt(W(Len(data)), pos)

\* whether the reader is at or behind the end of the stream
AtEnd == Available = 0

\* C8: while a fill is in progress fewer bytes than asked are read, the
\* buffer holds the stream's bytes since the fill began and zeros behind
\* them, and as long as the reader has bytes no more reads than bytes were
\* made; the assert never fails; byte(), field() and string() return what the
\* bytes at the call's position say, after at most as many reads as bytes.
C8_FillCompletely ==
    /\ pc # "panicked"
    /\ pc \in FillPcs =>
         /\ bytes_read < Len(buf)
         /\ ~AtEnd => reads <= bytes_read
         /\ bytes_read > 0 =>
              SubSeq(buf, 1, bytes_read)
                  = SubSeq(data, WInt(pos) - bytes_read + 1, WInt(pos))
         /\ \A i \in (bytes_read + 1)..Len(buf) : buf[i] = 0
    /\ IsOk("byte") =>
         /\ ret.val = data[WInt(pos0) + 1]
         /\ pos = WAdd(pos0, W(1))
         /\ reads = 1
    /\ IsOk("field") =>
         /\ ret.val = FieldAt(WInt(pos0), swap_endian)
         /\ pos = WAdd(pos0, W(FIELD_SIZE))
         /\ reads <= FIELD_SIZE
    /\ IsOk("string") =>
         /\ ret.val # <<>> =>
              ret.val = SubSeq(data, WInt(pos0) + 1, WInt(pos0) + Len(ret.val))
         /\ pos = WAdd(pos0, W(Len(ret.val)))
         /\ reads <= Len(ret.val)
    /\ IsErr("Utf8") => ~Utf8Valid(SubSeq(data, WInt(pos0) + 1, WInt(pos)))

\* C8's case: field() was served one byte at a time
C8_Witness == IsOk("field") /\ reads = FIELD_SIZE

\* a fill has bytes outstanding and the reader is at the end of the stream
Starved == pc \in FillPcs /\ bytes_read < Len(buf) /\ AtEnd

\* C9: when a fill has bytes outstanding and the reader answers a read with
\* no bytes and no error, the fill is where it was: same place, same
\* bytes_read, same buffer, nothing returned, and the reader still at the end.
C9_ZeroReadSpins ==
    [][(Starved /\ lastio'.ok) =>
          /\ Starved'
          /\ pc' = pc
          /\ bytes_read' = bytes_read
          /\ buf' = buf
          /\ pos' = pos
          /\ ret' = None
          /\ lastio'.call = "read" /\ lastio'.n = 0]_vars

\* C9's case: the fills of blocks() on a list cut short have been answered
\* with no bytes MaxReads times or more
C9_Witness ==
    /\ Starved
    /\ pc = "blocks_length"
    /\ lastio.call = "read" /\ lastio.ok /\ lastio.n = 0
    /\ reads = MaxReads

\* C10: when the reader has answered a call with an error the call is over
\* and has returned that error as its I/O failure.
C10_IoErrorPropagates ==
    ~lastio.ok =>
        /\ pc \in {"idle", "failed"}
        /\ IoFailed
        /\ result = <<>>

\* C10's case: a read of blocks() behind the count failed
C10_Witness ==
    /\ ~lastio.ok
    /\ lastio.call = "read"
    /\ pc = "idle"
    /\ WLt(WAdd(pos0, W(FIELD_SIZE)), pos)

====
